---- MODULE Spec2Model ----
(***************************************************************************)
(* compute_tidal_elevations.py (pyTMD): the command line driver that reads *)
(* a csv of (MJD, lat, lon, h) rows, selects a tide model, extracts the    *)
(* harmonic constants at the points, predicts the tide, adds the inferred  *)
(* minor constituents and writes one csv line per point.                   *)
(*                                                                         *)
(* Floating point values are modelled in eighths (x stands for x/8): every *)
(* such value is an exact binary float, sums of them are exact, and a tie  *)
(* of the 2-decimal rounding (k + 1/2 hundredths) is an exact tie.         *)
(***************************************************************************)
EXTENDS Integers, Sequences, FiniteSets, TLC

VARIABLES
  pc,           \* position of the program
  exc,          \* the exception that ended the run ("none" while running)
  arglist,      \* main: positional arguments (line 292)
  tide_dir,     \* main/compute: working data directory
  TIDE_MODEL,   \* main/compute: model identifier
  MODE,         \* main/compute: permission mode of the output file
  input_file,   \* compute: path of the input csv
  output_file,  \* compute: path of the output csv
  infile,       \* the rows of the input csv on disk
  dinput,       \* compute: the array np.loadtxt returned
  bound,        \* compute: the local names the model dispatch has bound
  par,          \* compute: the values of the dispatch's local names
  c,            \* compute: constituent name list
  amp,          \* compute: amplitude array (its mask)
  ph,           \* compute: phase array (its mask)
  hc,           \* compute: complex constituents (their mask)
  deltat,       \* compute: delta time per point
  tide,         \* compute: masked array of the prediction
  synth,        \* compute: the array predict_tide_drift returned (a temporary)
  minor,        \* compute: minor constituent correction per point
  calls,        \* the calls made to the collaborators, in order, with arguments
  out,          \* the output file on disk
  row,          \* compute: number of rows the writing loop has written
  numpy         \* how the installed numpy formats the masked constant

vars == <<pc, exc, arglist, tide_dir, TIDE_MODEL, MODE, input_file, output_file,
          infile, dinput, bound, par, c, amp, ph, hc, deltat, tide, synth,
          minor, calls, out, row, numpy>>

mainVars == <<arglist, tide_dir, TIDE_MODEL, MODE, input_file, output_file>>

----------------------------------------------------------------------------
(* Bounds of the model *)

\* largest number of rows of the input csv
MaxRows == 2

\* largest number of options on the command line
MaxOpts == 1

----------------------------------------------------------------------------
(* Paths: a path is the sequence of its components *)

NoneDir == <<"<None>">>

Home == <<"home", "user">>

expanduser(path) ==
  IF Len(path) > 0 /\ path[1] = "~" THEN Home \o Tail(path) ELSE path

dirname(path) == SubSeq(path, 1, Len(path) - 1)

join(dir, parts) == dir \o parts

----------------------------------------------------------------------------
(* Number formatting *)

Digits == <<"0", "1", "2", "3", "4", "5", "6", "7", "8", "9">>

RECURSIVE NatStr(_)
NatStr(n) ==
  IF n < 10 THEN Digits[n + 1]
  ELSE NatStr(n \div 10) \o Digits[(n % 10) + 1]

Abs(x) == IF x < 0 THEN -x ELSE x

Sign(x) == IF x < 0 THEN "-" ELSE ""

\* '{0:0.2f}'.format(x) for x given in eighths: round half to even at 2 decimals
Fmt2(x) ==
  LET a == Abs(x) * 100
      q == a \div 8
      r == a % 8
      h == IF r > 4 \/ (r = 4 /\ q % 2 = 1) THEN q + 1 ELSE q
      f == h % 100
  IN  Sign(x) \o NatStr(h \div 100) \o "."
        \o (IF f < 10 THEN "0" ELSE "") \o NatStr(f)

\* '{0:0.6f}'.format(x) for x given in eighths: three exact decimals, then zeros
Fmt6(x) ==
  LET a == Abs(x)
      f == (a % 8) * 125
  IN  Sign(x) \o NatStr(a \div 8) \o "."
        \o (IF f < 10 THEN "00" ELSE IF f < 100 THEN "0" ELSE "") \o NatStr(f)
        \o "000"

----------------------------------------------------------------------------
(* The model dispatch of compute_tidal_elevations, lines 93-238: each branch *)
(* of the if/elif chain is the record of the names it binds.  SCALE is kept  *)
(* as its denominator (1.0/1000.0 is 1000).  A model file is kept as the     *)
(* three parts of its name: 'q1load.d.gz' is File("", "q1", "load.d.gz").    *)

File(pre, con, suf) == [pre |-> pre, con |-> con, suf |-> suf]

Files(pre, cons, suf) == [k \in 1..Len(cons) |-> File(pre, cons[k], suf)]

FileName(f) == f.pre \o f.con \o f.suf

ESR == "https://www.esr.org/research/polar-tide-models/list-of-polar-tide-models/"

Ray1999 == "https://denali.gsfc.nasa.gov/personal_pages/ray/MiscPubs/19990089548_1999150788.pdf"

CATS0201(d) ==
  [grid_file |-> join(d, <<"cats0201_tmd", "grid_CATS">>),
   model_file |-> join(d, <<"cats0201_tmd", "h0_CATS02_01">>),
   reference |-> "https://mail.esr.org/polar_tide_models/Model_CATS0201.html",
   model_format |-> "OTIS", EPSG |-> "4326", type |-> "z"]

CATS2008(d) ==
  [grid_file |-> join(d, <<"CATS2008", "grid_CATS2008a_opt">>),
   model_file |-> join(d, <<"CATS2008", "hf.CATS2008.out">>),
   reference |-> ESR \o "cats2008/",
   model_format |-> "OTIS", EPSG |-> "CATS2008", type |-> "z"]

CATS2008_load(d) ==
  [grid_file |-> join(d, <<"CATS2008a_SPOTL_Load", "grid_CATS2008a_opt">>),
   model_file |-> join(d, <<"CATS2008a_SPOTL_Load", "h_CATS2008a_SPOTL_load">>),
   reference |-> ESR \o "cats2008/",
   model_format |-> "OTIS", EPSG |-> "CATS2008", type |-> "z"]

TPXO9_atlas(d) ==
  [model_directory |-> join(d, <<"TPXO9_atlas">>),
   grid_file |-> <<"grid_tpxo9_atlas.nc.gz">>,
   model_files |-> Files("h_", <<"q1", "o1", "p1", "k1", "n2", "m2", "s2", "k2",
                                 "m4", "ms4", "mn4", "2n2">>, "_tpxo9_atlas_30.nc.gz"),
   reference |-> "http://volkov.oce.orst.edu/tides/tpxo9_atlas.html",
   model_format |-> "netcdf", type |-> "z", SCALE |-> 1000]

TPXO9_1(d) ==
  [grid_file |-> join(d, <<"TPXO9.1", "DATA", "grid_tpxo9">>),
   model_file |-> join(d, <<"TPXO9.1", "DATA", "h_tpxo9.v1">>),
   reference |-> "http://volkov.oce.orst.edu/tides/global.html",
   model_format |-> "OTIS", EPSG |-> "4326", type |-> "z"]

TPXO8_atlas(d) ==
  [grid_file |-> join(d, <<"tpxo8_atlas", "grid_tpxo8atlas_30_v1">>),
   model_file |-> join(d, <<"tpxo8_atlas", "hf.tpxo8_atlas_30_v1">>),
   reference |-> "http://volkov.oce.orst.edu/tides/tpxo8_atlas.html",
   model_format |-> "ATLAS", EPSG |-> "4326", type |-> "z"]

TPXO7_2(d) ==
  [grid_file |-> join(d, <<"TPXO7.2_tmd", "grid_tpxo7.2">>),
   model_file |-> join(d, <<"TPXO7.2_tmd", "h_tpxo7.2">>),
   reference |-> "http://volkov.oce.orst.edu/tides/global.html",
   model_format |-> "OTIS", EPSG |-> "4326", type |-> "z"]

TPXO7_2_load(d) ==
  [grid_file |-> join(d, <<"TPXO7.2_load", "grid_tpxo6.2">>),
   model_file |-> join(d, <<"TPXO7.2_load", "h_tpxo7.2_load">>),
   reference |-> "http://volkov.oce.orst.edu/tides/global.html",
   model_format |-> "OTIS", EPSG |-> "4326", type |-> "z"]

AODTM_5(d) ==
  [grid_file |-> join(d, <<"aodtm5_tmd", "grid_Arc5km">>),
   model_file |-> join(d, <<"aodtm5_tmd", "h0_Arc5km.oce">>),
   reference |-> ESR \o "aodtm-5/",
   model_format |-> "OTIS", EPSG |-> "PSNorth", type |-> "z"]

AOTIM_5(d) ==
  [grid_file |-> join(d, <<"aotim5_tmd", "grid_Arc5km">>),
   model_file |-> join(d, <<"aotim5_tmd", "h_Arc5km.oce">>),
   reference |-> ESR \o "aotim-5/",
   model_format |-> "OTIS", EPSG |-> "PSNorth", type |-> "z"]

AOTIM_5_2018(d) ==
  [grid_file |-> join(d, <<"Arc5km2018", "grid_Arc5km2018">>),
   model_file |-> join(d, <<"Arc5km2018", "h_Arc5km2018">>),
   reference |-> ESR \o "aotim-5/",
   model_format |-> "OTIS", EPSG |-> "PSNorth", type |-> "z"]

GOT4_7(d) ==
  [model_directory |-> join(d, <<"GOT4.7", "grids_oceantide">>),
   model_files |-> Files("", <<"q1", "o1", "p1", "k1", "n2",
                               "m2", "s2", "k2", "s1", "m4">>, ".d.gz"),
   c |-> <<"q1", "o1", "p1", "k1", "n2", "m2", "s2", "k2", "s1", "m4">>,
   reference |-> Ray1999, model_format |-> "GOT", SCALE |-> 100]

GOT4_7_load(d) ==
  [model_directory |-> join(d, <<"GOT4.7", "grids_loadtide">>),
   model_files |-> Files("", <<"q1", "o1", "p1", "k1",
                               "n2", "m2", "s2", "k2",
                               "s1", "m4">>, "load.d.gz"),
   c |-> <<"q1", "o1", "p1", "k1", "n2", "m2", "s2", "k2", "s1", "m4">>,
   reference |-> Ray1999, model_format |-> "GOT", SCALE |-> 1000]

GOT4_8(d) ==
  [model_directory |-> join(d, <<"got4.8", "grids_oceantide">>),
   model_files |-> Files("", <<"q1", "o1", "p1", "k1", "n2",
                               "m2", "s2", "k2", "s1", "m4">>, ".d.gz"),
   c |-> <<"q1", "o1", "p1", "k1", "n2", "m2", "s2", "k2", "s1", "m4">>,
   reference |-> Ray1999, model_format |-> "GOT", SCALE |-> 100]

GOT4_8_load(d) ==
  [model_directory |-> join(d, <<"got4.8", "grids_loadtide">>),
   model_files |-> Files("", <<"q1", "o1", "p1", "k1",
                               "n2", "m2", "s2", "k2",
                               "s1", "m4">>, "load.d.gz"),
   c |-> <<"q1", "o1", "p1", "k1", "n2", "m2", "s2", "k2", "s1", "m4">>,
   reference |-> Ray1999, model_format |-> "GOT", SCALE |-> 1000]

GOT4_10(d) ==
  [model_directory |-> join(d, <<"GOT4.10c", "grids_oceantide">>),
   model_files |-> Files("", <<"q1", "o1", "p1", "k1", "n2",
                               "m2", "s2", "k2", "s1", "m4">>, ".d.gz"),
   c |-> <<"q1", "o1", "p1", "k1", "n2", "m2", "s2", "k2", "s1", "m4">>,
   reference |-> Ray1999, model_format |-> "GOT", SCALE |-> 100]

\* a slip in one branch: c lists s1 and m4 in the other order than model_files
GOT4_10_load_reordered(d) ==
  [model_directory |-> join(d, <<"GOT4.10c", "grids_loadtide">>),
   model_files |-> Files("", <<"q1", "o1", "p1", "k1",
                               "n2", "m2", "s2", "k2",
                               "s1", "m4">>, "load.d.gz"),
   c |-> <<"q1", "o1", "p1", "k1", "n2", "m2", "s2", "k2", "m4", "s1">>,
   reference |-> Ray1999, model_format |-> "GOT", SCALE |-> 1000]

GOT4_10_load(d) ==
  [model_directory |-> join(d, <<"GOT4.10c", "grids_loadtide">>),
   model_files |-> Files("", <<"q1", "o1", "p1", "k1",
                               "n2", "m2", "s2", "k2",
                               "s1", "m4">>, "load.d.gz"),
   c |-> <<"q1", "o1", "p1", "k1", "n2", "m2", "s2", "k2", "s1", "m4">>,
   reference |-> Ray1999, model_format |-> "GOT", SCALE |-> 1000]

\* the if/elif chain, lines 94-238: the identifier each branch compares with
Catalog(d) ==
  ("CATS0201" :> CATS0201(d)) @@ ("CATS2008" :> CATS2008(d))
  @@ ("CATS2008_load" :> CATS2008_load(d)) @@ ("TPXO9-atlas" :> TPXO9_atlas(d))
  @@ ("TPXO9.1" :> TPXO9_1(d)) @@ ("TPXO8-atlas" :> TPXO8_atlas(d))
  @@ ("TPXO7.2" :> TPXO7_2(d)) @@ ("TPXO7.2_load" :> TPXO7_2_load(d))
  @@ ("AODTM-5" :> AODTM_5(d)) @@ ("AOTIM-5" :> AOTIM_5(d))
  @@ ("AOTIM-5-2018" :> AOTIM_5_2018(d))
  @@ ("GOT4.7" :> GOT4_7(d)) @@ ("GOT4.7_load" :> GOT4_7_load(d))
  @@ ("GOT4.8" :> GOT4_8(d)) @@ ("GOT4.8_load" :> GOT4_8_load(d))
  @@ ("GOT4.10" :> GOT4_10(d)) @@ ("GOT4.10_load" :> GOT4_10_load(d))

ModelNames == DOMAIN Catalog(<<>>)

\* identifiers a caller may pass that no branch matches
UnknownModels == {"", "FES2014"}

----------------------------------------------------------------------------
(* main, lines 289-323 *)

\* MODE = 0o775, line 299
DefaultMode == 509

Opt(o, path, name, digits) == [opt |-> o, path |-> path, name |-> name, digits |-> digits]

\* the options a command line is made of; "-x" is an option getopt does not know
OptTokens ==
  {Opt("-h", <<>>, "", <<>>), Opt("-x", <<>>, "", <<>>)}
  \cup {Opt("-D", <<"~", "tides">>, "", <<>>)}
  \cup {Opt("-T", <<>>, m, <<>>) : m \in ModelNames \cup UnknownModels}
  \cup {Opt("-M", <<>>, "", d) : d \in {<<6, 4, 4>>, <<7, 9>>}}

OptLists == UNION {[1..n -> OptTokens] : n \in 0..MaxOpts}

PosArgs == <<(<<"obs", "in.csv">>), (<<"~", "out.csv">>), (<<"extra.csv">>)>>

ArgLists == {SubSeq(PosArgs, 1, n) : n \in 0..Len(PosArgs)}

\* int(arg, 8), line 309
RECURSIVE Octal(_)
Octal(digits) ==
  IF digits = <<>> THEN 0
  ELSE 8 * Octal(SubSeq(digits, 1, Len(digits) - 1)) + digits[Len(digits)]

IsOctal(digits) == digits # <<>> /\ \A k \in DOMAIN digits : digits[k] \in 0..7

\* the loop over optlist, lines 300-309
RECURSIVE ProcessOpts(_, _, _)
ProcessOpts(optlist, k, loc) ==
  IF k > Len(optlist) THEN loc
  ELSE LET o == optlist[k] IN
    IF o.opt = "-h" THEN [loc EXCEPT !.st = "SystemExit"]
    ELSE IF o.opt = "-D" THEN
      ProcessOpts(optlist, k + 1, [loc EXCEPT !.tide_dir = expanduser(o.path)])
    ELSE IF o.opt = "-T" THEN
      ProcessOpts(optlist, k + 1, [loc EXCEPT !.TIDE_MODEL = o.name])
    ELSE IF o.opt = "-M" THEN
      IF IsOctal(o.digits)
      THEN ProcessOpts(optlist, k + 1, [loc EXCEPT !.MODE = Octal(o.digits)])
      ELSE [loc EXCEPT !.st = "ValueError"]
    ELSE ProcessOpts(optlist, k + 1, loc)

UsageError == "Exception: No System Arguments Listed"

\* the check of the positional arguments, lines 311-317: what reading
\* arglist[0] and arglist[1] raises, "none" when both are there
PositionalCheck(args) ==
  IF args = <<>> THEN UsageError
  ELSE IF Len(args) < 2 THEN "IndexError"
  ELSE "none"

\* main: the locals at the call of compute_tidal_elevations, or the exception
main(optlist, args) ==
  LET loc0 == [st |-> "none", tide_dir |-> NoneDir, TIDE_MODEL |-> "CATS2008",
               MODE |-> DefaultMode, input_file |-> <<>>, output_file |-> <<>>]
  IN
  IF \E k \in DOMAIN optlist : optlist[k].opt = "-x"
  THEN [loc0 EXCEPT !.st = "GetoptError"]
  ELSE LET loc == ProcessOpts(optlist, 1, loc0) IN
    IF loc.st # "none" THEN loc
    ELSE IF PositionalCheck(args) # "none" THEN [loc EXCEPT !.st = PositionalCheck(args)]
    ELSE [loc EXCEPT !.input_file = expanduser(args[1]),
                     !.output_file = expanduser(args[2]),
                     !.tide_dir = IF loc.tide_dir = NoneDir
                                  THEN dirname(expanduser(args[1]))
                                  ELSE loc.tide_dir]

----------------------------------------------------------------------------
(* The input csv and np.loadtxt, lines 89-91 *)

\* row i of the input csv, in eighths: MJD 58000+i+i/8, lat 70+i/8, lon -40-3i/8
Row(i) == [MJD |-> (58000 + i) * 8 + i, lat |-> 70 * 8 + i, lon |-> -(40 * 8) - 3 * i, h |-> 0]

InFiles == {[i \in 1..n |-> Row(i)] : n \in 0..MaxRows}

\* np.loadtxt with a structured dtype: a file of one row gives a 0-d array,
\* any other file a 1-d array with one element per row
loadtxt(rows) ==
  [ndim |-> IF Len(rows) = 1 THEN 0 ELSE 1,
   MJD  |-> [i \in 1..Len(rows) |-> rows[i].MJD],
   lat  |-> [i \in 1..Len(rows) |-> rows[i].lat],
   lon  |-> [i \in 1..Len(rows) |-> rows[i].lon],
   h    |-> [i \in 1..Len(rows) |-> rows[i].h]]

NoInput == [ndim |-> 1, MJD |-> <<>>, lat |-> <<>>, lon |-> <<>>, h |-> <<>>]

Size(d) == Len(d.MJD)

----------------------------------------------------------------------------
(* The collaborators: pyTMD modules this file imports, lines 77-82 *)

\* the constituents an OTIS or ATLAS model file lists
OTISCons == <<"m2", "s2", "n2", "k2", "k1", "o1", "p1", "q1">>

\* the constituent names the extractor returns: read from the model file
\* (OTIS, ATLAS) or from each constituent's file (netcdf)
ExtractedCons(fmt, files) ==
  IF fmt = "netcdf" THEN [k \in 1..Len(files) |-> files[k].con] ELSE OTISCons

\* the invalid samples of one point: none, the first or the last constituent
BadSets(K) == {{}, {1}, {K}}

\* the validity masks an extractor may return for N points and K constituents
\* (True marks an invalid sample)
Masks(N, K) == [1..N -> {[k \in 1..K |-> k \in S] : S \in BadSets(K)}]

\* calc_delta_time: the table lookup of the delta time at each MJD
calc_delta_time(mjd) == [i \in 1..Len(mjd) |-> 60 + ((mjd[i] \div 8) % 10)]

\* the values predict_tide_drift may return at a point, in eighths
SynthVals == {-13, 10}

\* the values infer_minor_corrections may return at a point, in eighths
MinorVals == {0, 1}

Call(fn, args) == [fn |-> fn, args |-> args]

----------------------------------------------------------------------------
(* compute_tidal_elevations, lines 86-279 *)

\* 48622 MJD: Jan 1, 1992, lines 266 and 268
Epoch1992 == 48622

\* fill_value = -9999.0, line 263
FillValue == -9999

Init ==
  /\ pc = "main"
  /\ exc = "none"
  /\ arglist = <<>>
  /\ tide_dir = NoneDir
  /\ TIDE_MODEL = "CATS2008"
  /\ MODE = DefaultMode
  /\ input_file = <<>>
  /\ output_file = <<>>
  /\ infile \in InFiles
  /\ dinput = NoInput
  /\ bound = {}
  /\ par = <<>>
  /\ c = <<>>
  /\ amp = [mask |-> <<>>]
  /\ ph = [mask |-> <<>>]
  /\ hc = [mask |-> <<>>]
  /\ deltat = <<>>
  /\ tide = [mask |-> <<>>, data |-> <<>>, fill_value |-> 0]
  /\ synth = <<>>
  /\ minor = <<>>
  /\ calls = <<>>
  /\ out = [exists |-> FALSE, lines |-> <<>>, mode |-> -1]
  /\ row = 0
  /\ numpy = "unknown"

Raise(e) == pc' = "error" /\ exc' = e

\* lines 289-323
Main ==
  /\ pc = "main"
  /\ \E optlist \in OptLists, args \in ArgLists :
       LET loc == main(optlist, args) IN
       /\ arglist' = args
       /\ tide_dir' = loc.tide_dir
       /\ TIDE_MODEL' = loc.TIDE_MODEL
       /\ MODE' = loc.MODE
       /\ input_file' = loc.input_file
       /\ output_file' = loc.output_file
       /\ exc' = loc.st
       /\ pc' = IF loc.st = "none" THEN "read"
                ELSE IF loc.st = "SystemExit" THEN "exit" ELSE "error"
  /\ UNCHANGED <<infile, dinput, bound, par, c, amp, ph, hc, deltat, tide, synth, minor,
                 calls, out, row, numpy>>

\* lines 89-91: the input file may be unreadable
ReadInput ==
  /\ pc = "read"
  /\ \/ /\ Raise("IOError: input_file")
        /\ UNCHANGED dinput
     \/ /\ dinput' = loadtxt(infile)
        /\ pc' = "dispatch"
        /\ UNCHANGED exc
  /\ UNCHANGED <<mainVars, infile, bound, par, c, amp, ph, hc, deltat, tide, synth, minor,
                 calls, out, row, numpy>>

\* a default branch the chain does not have
BranchWithDefault(model, d) ==
  IF model \in ModelNames THEN Catalog(d)[model] ELSE Catalog(d)["CATS2008"]

\* the if/elif chain has no else: an identifier no branch matches binds nothing
Branch(model, d) ==
  IF model \in ModelNames THEN Catalog(d)[model] ELSE <<>>

\* lines 93-238
Dispatch ==
  /\ pc = "dispatch"
  /\ par' = Branch(TIDE_MODEL, tide_dir)
  /\ bound' = DOMAIN Branch(TIDE_MODEL, tide_dir)
  /\ c' = IF "c" \in DOMAIN Branch(TIDE_MODEL, tide_dir)
          THEN Branch(TIDE_MODEL, tide_dir).c ELSE <<>>
  /\ pc' = "extract"
  /\ UNCHANGED <<mainVars, exc, infile, dinput, amp, ph, hc, deltat, tide, synth, minor,
                 calls, out, row, numpy>>

\* the names each extraction branch reads, lines 241-254
ExtractReads(fmt) ==
  IF fmt \in {"OTIS", "ATLAS"} THEN {"grid_file", "model_file", "EPSG", "type"}
  ELSE IF fmt = "netcdf" THEN {"model_directory", "grid_file", "model_files", "type", "SCALE"}
  ELSE IF fmt = "GOT" THEN {"model_directory", "model_files", "SCALE"}
  ELSE {"ph", "amp"}

\* the extractor each branch calls, lines 242, 246, 251
Extractor(fmt) ==
  IF fmt \in {"OTIS", "ATLAS"} THEN "extract_tidal_constants"
  ELSE IF fmt = "netcdf" THEN "extract_netcdf_constants"
  ELSE "extract_GOT_constants"

\* the lookup also made for the netcdf models
NeedsDeltaTimeNetcdfToo(fmt) == fmt \in {"GOT", "netcdf"}

\* whether the branch looks the delta time up (line 254) or takes zeros (244, 249)
NeedsDeltaTime(fmt) == fmt = "GOT"

\* np.zeros_like(dinput['MJD']), lines 244 and 249
zeros_like(a) == [i \in 1..Len(a) |-> 0]

\* the calls of one extraction branch
ExtractCalls(fmt, d) ==
  <<Call(Extractor(fmt), [lon |-> d.lon, lat |-> d.lat])>>
  \o (IF NeedsDeltaTime(fmt) THEN <<Call("calc_delta_time", [MJD |-> d.MJD])>> ELSE <<>>)

\* deltat of one extraction branch
DeltaTime(fmt, d) ==
  IF NeedsDeltaTime(fmt) THEN calc_delta_time(d.MJD) ELSE zeros_like(d.MJD)

\* lines 240-254: reading a name no branch has bound raises UnboundLocalError;
\* the extractor may fail (missing or malformed model files, a 0-d array of points)
Extract ==
  /\ pc = "extract"
  /\ IF "model_format" \notin bound \/ ~(ExtractReads(par.model_format) \subseteq bound)
     THEN /\ Raise("UnboundLocalError")
          /\ UNCHANGED <<bound, c, amp, ph, deltat, calls>>
     ELSE LET fmt == par.model_format
              K   == IF fmt = "GOT" THEN Len(par.model_files)
                     ELSE Len(ExtractedCons(fmt, par.model_files))
          IN
          \/ /\ Raise("CollaboratorError")
             /\ calls' = calls \o <<ExtractCalls(fmt, dinput)[1]>>
             /\ UNCHANGED <<bound, c, amp, ph, deltat>>
          \/ /\ \E m \in Masks(Size(dinput), K) :
                  /\ amp' = [mask |-> m]
                  /\ ph' = [mask |-> m]
             /\ c' = IF fmt = "GOT" THEN c ELSE ExtractedCons(fmt, par.model_files)
             /\ bound' = bound \cup {"amp", "ph", "deltat"}
                           \cup (IF fmt = "GOT" THEN {"delta_file"} ELSE {"D", "c"})
             /\ deltat' = DeltaTime(fmt, dinput)
             /\ calls' = calls \o ExtractCalls(fmt, dinput)
             /\ pc' = "combine"
             /\ UNCHANGED exc
  /\ UNCHANGED <<mainVars, infile, dinput, par, hc, tide, synth, minor, out, row, numpy>>

\* the mask of a product of two masked arrays: invalid where either is
mask_or(m1, m2) == [i \in DOMAIN m1 |-> [k \in DOMAIN m1[i] |-> m1[i][k] \/ m2[i][k]]]

\* lines 256-259: hc = amp*np.exp(-1j*ph*np.pi/180.0)
Combine ==
  /\ pc = "combine"
  /\ hc' = [mask |-> mask_or(amp.mask, ph.mask)]
  /\ pc' = "synth"
  /\ UNCHANGED <<mainVars, exc, infile, dinput, bound, par, c, amp, ph, deltat, tide,
                 synth, minor, calls, out, row, numpy>>

\* np.any over the constituents of one point, a reduction with logical or
RECURSIVE AnyUpTo(_, _)
AnyUpTo(r, k) == IF k = 0 THEN FALSE ELSE AnyUpTo(r, k - 1) \/ r[k]

\* np.all in place of np.any: invalid only where every constituent is
all_axis1(m) == [i \in DOMAIN m |-> \A k \in DOMAIN m[i] : m[i][k]]

\* np.any(hc.mask, axis=1), line 265
any_axis1(m) == [i \in DOMAIN m |-> AnyUpTo(m[i], Len(m[i]))]

\* dinput['MJD'] - 48622.0
RelativeTime(mjd) == [i \in 1..Len(mjd) |-> mjd[i] - 8 * Epoch1992]

\* the arguments of predict_tide_drift, lines 266-267
PredictArgs(d, hcs, cs, dt, fmt) ==
  [t |-> RelativeTime(d.MJD), hc |-> hcs, c |-> cs, DELTAT |-> dt, CORRECTIONS |-> fmt]

\* infer_minor_corrections given the raw MJD
InferArgsRawTime(d, hcs, cs, dt, fmt) ==
  [t |-> d.MJD, hc |-> hcs, c |-> cs, DELTAT |-> dt, CORRECTIONS |-> fmt]

\* the arguments of infer_minor_corrections, lines 268-269
InferArgs(d, hcs, cs, dt, fmt) ==
  [t |-> RelativeTime(d.MJD), hc |-> hcs, c |-> cs, DELTAT |-> dt, CORRECTIONS |-> fmt]

\* np.ma.empty_like(dinput['MJD'],fill_value) with its mask set, lines 264-265;
\* the data are uninitialised until line 266 assigns them
EmptyTide(d, m) ==
  [mask |-> any_axis1(m), data |-> zeros_like(d.MJD), fill_value |-> 8 * FillValue]

\* lines 263-267: tide.data[:] = ... indexes a 0-d array when the input has one row
Synthesize ==
  /\ pc = "synth"
  /\ IF "c" \notin bound
     THEN /\ Raise("UnboundLocalError")
          /\ tide' = EmptyTide(dinput, hc.mask)
          /\ UNCHANGED <<synth, calls>>
     ELSE /\ calls' = Append(calls, Call("predict_tide_drift",
                               PredictArgs(dinput, hc, c, deltat, par.model_format)))
          /\ \/ /\ Raise("CollaboratorError")
                /\ tide' = EmptyTide(dinput, hc.mask)
                /\ UNCHANGED synth
             \/ /\ \E v \in [1..Size(dinput) -> SynthVals] :
                     /\ synth' = v
                     /\ IF dinput.ndim = 0
                        THEN /\ Raise("IndexError")
                             /\ tide' = EmptyTide(dinput, hc.mask)
                        ELSE /\ tide' = [EmptyTide(dinput, hc.mask) EXCEPT !.data = v]
                             /\ pc' = "minor"
                             /\ UNCHANGED exc
  /\ UNCHANGED <<mainVars, infile, dinput, bound, par, c, amp, ph, hc, deltat,
                 minor, out, row, numpy>>

\* line 270 left out
AddNothing(data, m) == data

\* tide.data[:] += minor.data[:], line 270
AddMinor(data, m) == [i \in DOMAIN data |-> data[i] + m[i]]

\* lines 268-270
InferMinor ==
  /\ pc = "minor"
  /\ calls' = Append(calls, Call("infer_minor_corrections",
                       InferArgs(dinput, hc, c, deltat, par.model_format)))
  /\ \/ /\ Raise("CollaboratorError")
        /\ UNCHANGED <<tide, minor>>
     \/ /\ \E m \in [1..Size(dinput) -> MinorVals] :
             /\ minor' = m
             /\ tide' = [tide EXCEPT !.data = AddMinor(tide.data, m)]
        /\ pc' = "fill"
        /\ UNCHANGED exc
  /\ UNCHANGED <<mainVars, infile, dinput, bound, par, c, amp, ph, hc, deltat,
                 synth, out, row, numpy>>

\* tide.data[tide.mask] = tide.fill_value, line 272
FillMasked(t) ==
  [t EXCEPT !.data = [i \in DOMAIN t.data |-> IF t.mask[i] THEN t.fill_value ELSE t.data[i]]]

\* lines 271-272
FillInvalid ==
  /\ pc = "fill"
  /\ tide' = FillMasked(tide)
  /\ pc' = "open"
  /\ UNCHANGED <<mainVars, exc, infile, dinput, bound, par, c, amp, ph, hc, deltat,
                 synth, minor, calls, out, row, numpy>>

\* line 275: open(output_file,'w') creates or truncates the file, or fails
OpenOutput ==
  /\ pc = "open"
  /\ \/ /\ Raise("IOError: output_file")
        /\ UNCHANGED out
     \/ /\ out' = [out EXCEPT !.exists = TRUE, !.lines = <<>>]
        /\ pc' = "write"
        /\ UNCHANGED exc
  /\ UNCHANGED <<mainVars, infile, dinput, bound, par, c, amp, ph, hc, deltat, tide,
                 synth, minor, calls, row, numpy>>

\* what the loop variable td is at point i: iterating a masked array gives its
\* data at a valid point and the masked constant (of data 0.0) at an invalid one
Item(t, i) == [masked |-> t.mask[i], value |-> IF t.mask[i] THEN 0 ELSE t.data[i]]

\* '{3:0.2f}'.format(masked) depends on the installed numpy: before 1.14 the
\* constant formats its data 0.0, from 1.14 to 1.18 a format specification raises
\* TypeError, from 1.19 on the specification is ignored with a warning
NumpyBuilds == {"ignores_spec", "raises", "old_formats_data"}

\* the elevation field of a row, line 277
FormatElevation(td, build) ==
  IF ~td.masked THEN Fmt2(td.value)
  ELSE IF build = "old_formats_data" THEN Fmt2(td.value)
  ELSE "--"

\* the fields of '{0:0.6f},{1:0.2f},{2:0.2f},{3:0.2f}\n', line 277
Line(d, i, td, build) ==
  <<Fmt6(d.MJD[i]), Fmt2(d.lat[i]), Fmt2(d.lon[i]), FormatElevation(td, build)>>

\* the loop left after its first pass
ZipExhaustedAfterFirst(n, d) == n >= 1 \/ n = Size(d)

\* the loop ends when zip has given every row
ZipExhausted(n, d) == n = Size(d)

\* lines 276-277, one pass of the loop over zip(MJD, lat, lon, tide)
WriteRow ==
  /\ pc = "write"
  /\ ~ZipExhausted(row, dinput)
  /\ LET td == Item(tide, row + 1) IN
     \E build \in (IF numpy = "unknown" /\ td.masked THEN NumpyBuilds ELSE {numpy}) :
       /\ numpy' = build
       /\ IF td.masked /\ build = "raises"
          THEN /\ Raise("TypeError")
               /\ UNCHANGED <<out, row>>
          ELSE /\ out' = [out EXCEPT !.lines = Append(@, Line(dinput, row + 1, td, build))]
               /\ row' = row + 1
               /\ UNCHANGED <<pc, exc>>
  /\ UNCHANGED <<mainVars, infile, dinput, bound, par, c, amp, ph, hc, deltat, tide,
                 synth, minor, calls>>

\* lines 278-279, after the loop and the close of the file
Chmod ==
  /\ pc = "write"
  /\ ZipExhausted(row, dinput)
  /\ out' = [out EXCEPT !.mode = MODE]
  /\ pc' = "done"
  /\ UNCHANGED <<mainVars, exc, infile, dinput, bound, par, c, amp, ph, hc, deltat,
                 tide, synth, minor, calls, row, numpy>>

Next ==
  \/ Main
  \/ ReadInput
  \/ Dispatch
  \/ Extract
  \/ Combine
  \/ Synthesize
  \/ InferMinor
  \/ FillInvalid
  \/ OpenOutput
  \/ WriteRow
  \/ Chmod

Spec == Init /\ [][Next]_vars

----------------------------------------------------------------------------
(* Properties *)

\* C1: once the mask of the prediction is set (line 265), point i is marked
\* invalid exactly when some constituent sample of point i is invalid
C1_MaskIffAnyInvalid ==
  (\E j \in DOMAIN calls : calls[j].fn = "predict_tide_drift") =>
    /\ DOMAIN tide.mask = 1..Size(dinput)
    /\ \A i \in 1..Size(dinput) :
         tide.mask[i] <=> (\E k \in DOMAIN hc.mask[i] : hc.mask[i][k])

\* a finished run over two points: the first has only its last constituent
\* invalid and is marked, the second has every constituent valid and is not
C1_Witness ==
  /\ pc = "done"
  /\ Size(dinput) = 2
  /\ hc.mask[1][Len(c)] /\ ~hc.mask[1][1] /\ tide.mask[1]
  /\ (\A k \in DOMAIN hc.mask[2] : ~hc.mask[2][k]) /\ ~tide.mask[2]

\* C2: the elevation field of every line written for an invalid point is the
\* text of the fill value
C2_InvalidRowsShowFill ==
  \A i \in 1..Len(out.lines) :
    (\E k \in DOMAIN hc.mask[i] : hc.mask[i][k]) => out.lines[i][4] = "-9999.00"

\* C3: a run over a catalog model that no failure of the file system or of a
\* collaborator ends has completed with one line per input row, line i made
\* of the time, latitude and longitude of row i
C3_EveryBatchCompletes ==
  (/\ pc \in {"done", "error"}
   /\ input_file # <<>>
   /\ TIDE_MODEL \in ModelNames
   /\ exc \notin {"IOError: input_file", "IOError: output_file", "CollaboratorError"}) =>
    /\ pc = "done"
    /\ Len(out.lines) = Len(infile)
    /\ \A i \in 1..Len(infile) :
         /\ out.lines[i][1] = Fmt6(infile[i].MJD)
         /\ out.lines[i][2] = Fmt2(infile[i].lat)
         /\ out.lines[i][3] = Fmt2(infile[i].lon)

\* C4: calc_delta_time is called for the GOT models only, and the delta time
\* given to the synthesizer and to the minor inference of an OTIS, ATLAS or
\* netcdf model is zero at every point
C4_DeltaTimeOnlyForGOT ==
  \A j \in DOMAIN calls :
    /\ calls[j].fn = "calc_delta_time" => par.model_format = "GOT"
    /\ (/\ calls[j].fn \in {"predict_tide_drift", "infer_minor_corrections"}
        /\ par.model_format \in {"OTIS", "ATLAS", "netcdf"}) =>
         /\ Len(calls[j].args.DELTAT) = Size(dinput)
         /\ \A i \in 1..Size(dinput) : calls[j].args.DELTAT[i] = 0

\* a finished netcdf run over two points: both calls were made, no lookup was
C4_Witness ==
  /\ pc = "done"
  /\ par.model_format = "netcdf"
  /\ Size(dinput) = 2
  /\ Len(calls) = 3
  /\ calls[2].fn = "predict_tide_drift" /\ calls[2].args.DELTAT = <<0, 0>>
  /\ calls[3].fn = "infer_minor_corrections" /\ calls[3].args.DELTAT = <<0, 0>>

\* C5: with fewer than two positional arguments (and well-formed options, no
\* help asked for) main ends with the usage error, before any call
C5_FewerThanTwoIsUsageError ==
  (/\ pc # "main"
   /\ Len(arglist) < 2
   /\ exc \notin {"SystemExit", "GetoptError", "ValueError"}) =>
    /\ pc = "error"
    /\ exc = "Exception: No System Arguments Listed"
    /\ calls = <<>>

\* C6: a run whose TIDE_MODEL no branch matches never gets past the extraction
\* step, calls no collaborator and leaves no output file
C6_UnknownModelIsFatal ==
  (TIDE_MODEL \notin {"CATS0201", "CATS2008", "CATS2008_load", "TPXO9-atlas", "TPXO9.1",
                      "TPXO8-atlas", "TPXO7.2", "TPXO7.2_load", "AODTM-5", "AOTIM-5",
                      "AOTIM-5-2018", "GOT4.7", "GOT4.7_load", "GOT4.8", "GOT4.8_load",
                      "GOT4.10", "GOT4.10_load"}) =>
    /\ pc \in {"main", "read", "dispatch", "extract", "error", "exit"}
    /\ calls = <<>>
    /\ out = [exists |-> FALSE, lines |-> <<>>, mode |-> -1]
    /\ (pc = "error" /\ dinput # NoInput) => exc = "UnboundLocalError"

\* an unknown identifier has reached the extraction step and ended the run there
C6_Witness ==
  /\ TIDE_MODEL = "FES2014"
  /\ pc = "error"
  /\ exc = "UnboundLocalError"
  /\ Size(dinput) = 2

\* C7: once line 270 has run, the data of every valid point are the sum of
\* what predict_tide_drift and infer_minor_corrections returned for it; once
\* line 272 has run, the data of every invalid point are the fill value alone;
\* and the elevation written for a valid point is that sum to 2 decimals
C7_ValidPointsAreSum ==
  LET invalid(i) == \E k \in DOMAIN hc.mask[i] : hc.mask[i][k]
      added  == /\ \E j \in DOMAIN calls : calls[j].fn = "infer_minor_corrections"
                /\ exc # "CollaboratorError"
      filled == added /\ pc \notin {"fill"}
  IN
  /\ added => \A i \in 1..Size(dinput) :
                ~invalid(i) => tide.data[i] = synth[i] + minor[i]
  /\ filled => \A i \in 1..Size(dinput) :
                 invalid(i) => tide.data[i] = -79992
  /\ \A i \in 1..Len(out.lines) :
       ~invalid(i) => out.lines[i][4] = Fmt2(synth[i] + minor[i])

\* a finished run over an invalid and a valid point, the valid one with a
\* minor correction that is not zero, written as the sum 1.25 + 0.125
C7_Witness ==
  /\ pc = "done"
  /\ Size(dinput) = 2
  /\ tide.mask[1] /\ ~tide.mask[2]
  /\ synth[2] = 10 /\ minor[2] = 1 /\ minor[1] = 1
  /\ Len(out.lines) = 2
  /\ out.lines[2][4] = "1.38"

\* C8: infer_minor_corrections is called with the arguments predict_tide_drift
\* was called with: the MJD minus 48622 days, hc, c, deltat and model_format
C8_SameArguments ==
  \A j \in DOMAIN calls :
    calls[j].fn \in {"predict_tide_drift", "infer_minor_corrections"} =>
      /\ Len(calls[j].args.t) = Size(dinput)
      /\ \A i \in 1..Size(dinput) : calls[j].args.t[i] = dinput.MJD[i] - 388976
      /\ calls[j].args.hc = hc
      /\ calls[j].args.c = c
      /\ calls[j].args.DELTAT = deltat
      /\ calls[j].args.CORRECTIONS = par.model_format
      /\ \A k \in DOMAIN calls :
           calls[k].fn \in {"predict_tide_drift", "infer_minor_corrections"} =>
             calls[k].args = calls[j].args

\* a GOT run over two points in which both calls were made, with a delta time
\* that is not zero
C8_Witness ==
  /\ pc = "fill"
  /\ par.model_format = "GOT"
  /\ Size(dinput) = 2
  /\ Len(calls) = 4
  /\ calls[3].fn = "predict_tide_drift"
  /\ calls[4].fn = "infer_minor_corrections"
  /\ calls[4].args.DELTAT[1] # 0

\* C9: a catalog model never meets an unbound name; after the dispatch the
\* names its extraction branch reads are bound, and for a GOT model so is c,
\* which names the constituents of model_files, in their order
C9_BranchesBindWhatIsRead ==
  (/\ TIDE_MODEL \in ModelNames
   /\ \/ pc \in {"extract", "combine", "synth", "minor", "fill", "open", "write", "done"}
      \/ pc = "error" /\ exc \notin {"GetoptError", "ValueError", "IndexError",
                                     "Exception: No System Arguments Listed",
                                     "IOError: input_file"}
      \/ pc = "error" /\ exc = "IndexError" /\ Len(arglist) >= 2) =>
    /\ exc # "UnboundLocalError"
    /\ "model_format" \in bound
    /\ par.model_format \in {"OTIS", "ATLAS", "netcdf", "GOT"}
    /\ par.model_format \in {"OTIS", "ATLAS"} =>
         {"grid_file", "model_file", "EPSG", "type"} \subseteq bound
    /\ par.model_format = "netcdf" =>
         {"model_directory", "grid_file", "model_files", "type", "SCALE"} \subseteq bound
    /\ par.model_format = "GOT" =>
         /\ {"model_directory", "model_files", "SCALE", "c"} \subseteq bound
         /\ Len(c) = Len(par.model_files)
         /\ \A k \in 1..Len(c) : par.model_files[k].con = c[k]

\* a finished run of the last GOT branch
C9_Witness ==
  /\ pc = "done"
  /\ TIDE_MODEL = "GOT4.10_load"
  /\ Len(c) = 10
  /\ FileName(par.model_files[9]) = "s1load.d.gz" /\ c[9] = "s1"

\* C10: the output file exists only once extraction, synthesis, minor
\* inference and the fill replacement are done; no run ended by one of those
\* steps has touched it; and the mode is changed only by a run that is done
\* and has written one line for every input row
C10_OutputAfterPipelineChmodLast ==
  /\ out.exists =>
       /\ pc \in {"write", "done"} \/ (pc = "error" /\ exc = "TypeError")
       /\ Len(calls) >= 3
       /\ calls[1].fn \in {"extract_tidal_constants", "extract_netcdf_constants",
                           "extract_GOT_constants"}
       /\ calls[Len(calls) - 1].fn = "predict_tide_drift"
       /\ calls[Len(calls)].fn = "infer_minor_corrections"
       /\ \A i \in 1..Size(dinput) : tide.mask[i] => tide.data[i] = tide.fill_value
  /\ (pc = "error" /\ exc \in {"UnboundLocalError", "CollaboratorError", "IndexError",
                               "IOError: input_file", "IOError: output_file"}) =>
       out = [exists |-> FALSE, lines |-> <<>>, mode |-> -1]
  /\ out.mode # -1 =>
       /\ pc = "done"
       /\ out.mode = MODE
       /\ Len(out.lines) = Len(infile)
  /\ pc = "error" => out.mode = -1

\* a run that failed while writing its second row: one line written, no chmod
C10_Witness ==
  /\ pc = "error"
  /\ exc = "TypeError"
  /\ out.exists
  /\ Len(out.lines) = 1
  /\ Len(infile) = 2
  /\ out.mode = -1

====
